---- MODULE Spec2Model ----
(***************************************************************************)
(* kapak: reads product codes, fetches one cover image per code (primary   *)
(* URL, then backup URL) and lays the images out on a rows x cols grid of  *)
(* a landscape A4 document.  Model of src/kapak/main.go.                   *)
(*                                                                         *)
(* Strings are sequences of runes; a rune is written as a one-character    *)
(* string, or as "U+xxxx" for a rune outside ASCII.  Lengths are exact     *)
(* rationals <<numerator, denominator>> in millimetres (the code uses      *)
(* float64).  Go's int is modelled with IntBits bits, two's complement.    *)
(***************************************************************************)
EXTENDS Integers, Sequences, FiniteSets, TLC

\* ------------------------------------------------------------------ bounds

\* Width of the machine integer of the model.  Go's int has 64 bits; the
\* model keeps its two's complement arithmetic at a width TLC can enumerate.
IntBits == 6
\* Longest input, in lines, of the pipeline specification.
MaxLines == 2
\* Largest number of items of the grid specification.
MaxItems == 2
\* Largest cell side, in millimetres, and largest image side, in pixels, of
\* the fit specification.
MaxCellMM == 14
MaxPixels == 3

\* ------------------------------------------------------------------ integers

Pow2(n) == 2 ^ n
MaxInt == Pow2(IntBits - 1) - 1
MinInt == 0 - Pow2(IntBits - 1)

\* The value an int holds after an arithmetic result v: v modulo 2^IntBits.
Wrap(v) == ((v - MinInt) % Pow2(IntBits)) + MinInt

Abs(v) == IF v < 0 THEN 0 - v ELSE v

\* Go's / and % on ints truncate toward zero (b # 0).
GoDiv(a, b) ==
  LET q == Abs(a) \div Abs(b)
  IN  IF (a < 0) = (b < 0) THEN q ELSE 0 - q
GoMod(a, b) == a - (b * GoDiv(a, b))

\* ------------------------------------------------------------------ runes

AsciiDigits == {"0", "1", "2", "3", "4", "5", "6", "7", "8", "9"}
\* U+0663 ARABIC-INDIC DIGIT THREE: category Nd, not ASCII.
OtherDigits == {"U+0663"}
\* The twelve runes toASCII replaces: g-breve, u-diaeresis, s-cedilla,
\* dotless i / dotted I, o-diaeresis, c-cedilla, small and capital.
TurkishRunes ==
  {"U+011F", "U+011E", "U+00FC", "U+00DC", "U+015F", "U+015E",
   "U+0131", "U+0130", "U+00F6", "U+00D6", "U+00E7", "U+00C7"}
WhiteSpace == {" ", "\t"}
AsciiOther ==
  {"#", "=", "-", "+", "x", "X", "a", "u", "r", "n", "o", "N", "O", "T",
   "F", "U", "D", "I", "V", "A", "L", "R", "M", "g", "G", "s", "S", "i",
   "c", "C"}
AsciiRunes == AsciiDigits \cup WhiteSpace \cup AsciiOther

IsDigit(r) == r \in AsciiDigits \cup OtherDigits
IsSpace(r) == r \in WhiteSpace
IsASCII(r) == r \in AsciiRunes

DigitRunes == <<"0", "1", "2", "3", "4", "5", "6", "7", "8", "9">>
DigitValue(r) == (CHOOSE k \in 1..10 : DigitRunes[k] = r) - 1

\* ------------------------------------------------------------------ strings

RECURSIVE TrimLeft(_)
TrimLeft(s) ==
  IF s # <<>> /\ IsSpace(Head(s)) THEN TrimLeft(Tail(s)) ELSE s

RECURSIVE TrimRight(_)
TrimRight(s) ==
  IF s # <<>> /\ IsSpace(s[Len(s)])
  THEN TrimRight(SubSeq(s, 1, Len(s) - 1))
  ELSE s

TrimSpace(s) == TrimRight(TrimLeft(s))

\* unicode.ToLower on the capital letters of the model's alphabet.
LowerRune(r) ==
  CASE r = "X" -> "x"
    [] r = "A" -> "a"
    [] r = "U" -> "u"
    [] r = "R" -> "r"
    [] r = "N" -> "n"
    [] r = "O" -> "o"
    [] OTHER -> r
ToLower(s) == [k \in 1..Len(s) |-> LowerRune(s[k])]

HasPrefix(s, p) == Len(s) >= Len(p) /\ SubSeq(s, 1, Len(p)) = p

\* strings.Index: the 0-based position of the first occurrence, or -1.
RECURSIVE IndexFrom(_, _, _)
IndexFrom(s, t, k) ==
  IF k + Len(t) > Len(s) THEN 0 - 1
  ELSE IF SubSeq(s, k + 1, k + Len(t)) = t THEN k
  ELSE IndexFrom(s, t, k + 1)
Index(s, t) == IndexFrom(s, t, 0)

\* strings.Split(s, sep) for a one-rune separator: the pieces between the
\* separators, Count(sep) + 1 of them.
RECURSIVE SplitAcc(_, _, _, _)
SplitAcc(s, sep, cur, acc) ==
  IF s = <<>> THEN Append(acc, cur)
  ELSE IF Head(s) = sep THEN SplitAcc(Tail(s), sep, <<>>, Append(acc, cur))
  ELSE SplitAcc(Tail(s), sep, Append(cur, Head(s)), acc)
Split(s, sep) == SplitAcc(s, sep, <<>>, <<>>)

\* ------------------------------------------------------------------ strconv.Atoi

RECURSIVE DigitsValue(_, _)
DigitsValue(s, acc) ==
  IF s = <<>> THEN acc
  ELSE DigitsValue(Tail(s), (10 * acc) + DigitValue(Head(s)))

\* strconv.Atoi: an optional sign, then one or more ASCII digits; an error
\* for anything else and for a value outside the range of int.
Atoi(s) ==
  LET signed == s # <<>> /\ Head(s) \in {"+", "-"}
      body == IF signed THEN Tail(s) ELSE s
      syntaxOK == body # <<>> /\ \A k \in 1..Len(body) : body[k] \in AsciiDigits
      mag == DigitsValue(body, 0)
      v == IF signed /\ Head(s) = "-" THEN 0 - mag ELSE mag
  IN  IF ~syntaxOK THEN [value |-> 0, err |-> TRUE]
      ELSE IF v < MinInt \/ v > MaxInt THEN [value |-> 0, err |-> TRUE]
      ELSE [value |-> v, err |-> FALSE]

\* ------------------------------------------------------------------ parseGridSize

parseGridSize(value) ==
  LET clean == ToLower(TrimSpace(value))
      parts == Split(clean, "x")
      bad == [rows |-> 0, cols |-> 0, err |-> TRUE]
  IN  IF Len(parts) # 2 THEN bad
      ELSE LET r == Atoi(parts[1])
               c == Atoi(parts[2])
           IN  IF r.err \/ r.value <= 0 THEN bad
               ELSE IF c.err \/ c.value <= 0 THEN bad
               ELSE [rows |-> r.value, cols |-> c.value, err |-> FALSE]

\* ------------------------------------------------------------------ scanIDs

isAllDigits(s) ==
  IF Len(s) = 0 THEN FALSE ELSE \A k \in 1..Len(s) : IsDigit(s[k])

\* DigitRun with a slip: the loop skips the runes that are no digits
\* instead of stopping at the first.
RECURSIVE DigitRunAll(_)
DigitRunAll(rest) ==
  IF rest = <<>> THEN <<>>
  ELSE IF IsDigit(Head(rest)) THEN <<Head(rest)>> \o DigitRunAll(Tail(rest))
  ELSE DigitRunAll(Tail(rest))

\* The loop of extractProductCode: the runes of rest up to the first one
\* that is not a digit.
RECURSIVE DigitRun(_)
DigitRun(rest) ==
  IF rest # <<>> /\ IsDigit(Head(rest))
  THEN <<Head(rest)>> \o DigitRun(Tail(rest))
  ELSE <<>>

Marker == <<"u", "r", "u", "n", "n", "o", "=">>

\* extractProductCode: <<>> stands for the empty string "no code".
extractProductCode(line) ==
  IF isAllDigits(line) THEN line
  ELSE LET idx == Index(line, Marker)
       IN  IF idx # 0 - 1
           THEN DigitRun(SubSeq(line, idx + Len(Marker) + 1, Len(line)))
           ELSE <<>>

\* scanIDs over the lines the scanner delivers.
RECURSIVE scanIDs(_)
scanIDs(lines) ==
  IF lines = <<>> THEN <<>>
  ELSE LET line == TrimSpace(Head(lines))
           extractedID == extractProductCode(line)
           rest == scanIDs(Tail(lines))
       IN  IF line = <<>> \/ HasPrefix(line, <<"#">>) THEN rest
           ELSE IF extractedID # <<>> THEN <<extractedID>> \o rest
           ELSE rest

\* ------------------------------------------------------------------ toASCII

\* strings.NewReplacer over the twelve Turkish runes; every other rune is
\* copied unchanged.
ReplaceRune(r) ==
  CASE r = "U+011F" -> "g" [] r = "U+011E" -> "G"
    [] r = "U+00FC" -> "u" [] r = "U+00DC" -> "U"
    [] r = "U+015F" -> "s" [] r = "U+015E" -> "S"
    [] r = "U+0131" -> "i" [] r = "U+0130" -> "I"
    [] r = "U+00F6" -> "o" [] r = "U+00D6" -> "O"
    [] r = "U+00E7" -> "c" [] r = "U+00C7" -> "C"
    [] OTHER -> r
toASCII(s) == [k \in 1..Len(s) |-> ReplaceRune(s[k])]

\* ------------------------------------------------------------------ lengths

RECURSIVE GCD(_, _)
GCD(a, b) == IF b = 0 THEN a ELSE GCD(b, a % b)

\* The rational n/d (d # 0) in lowest terms with a positive denominator.
Rat(n, d) ==
  LET g == GCD(Abs(n), Abs(d))
      sgn == IF d < 0 THEN 0 - 1 ELSE 1
  IN  IF n = 0 THEN <<0, 1>>
      ELSE <<(sgn * n) \div g, Abs(d) \div g>>
Num(v) == Rat(v, 1)
RAdd(a, b) == Rat((a[1] * b[2]) + (b[1] * a[2]), a[2] * b[2])
RSub(a, b) == Rat((a[1] * b[2]) - (b[1] * a[2]), a[2] * b[2])
RMul(a, b) == Rat(a[1] * b[1], a[2] * b[2])
\* a / b for b # 0.
RDiv(a, b) == Rat(a[1] * b[2], a[2] * b[1])
RLess(a, b) == (a[1] * b[2]) < (b[1] * a[2])
RLeq(a, b) == (a[1] * b[2]) <= (b[1] * a[2])

\* ------------------------------------------------------------------ constants

pageMarginXMM == 20
pageMarginYMM == 20
cellBorderInsetMM == 2
contentPaddingMM == 10
\* fpdf.New("L", "mm", "A4", ""): the landscape A4 page, in whole
\* millimetres (GetPageSize returns 841.89 x 595.28 points, less than a
\* hundredth of a millimetre more).
PageWidthMM == 297
PageHeightMM == 210
\* The height of the text cell passed to CellFormat, and the offset of
\* drawAsciiText above the middle of the cell.
TextCellHeightMM == 5
TextRaiseMM == 2
\* The only status download accepts.
StatusOK == 200

\* ------------------------------------------------------------------ layout

cellWidthOf(nCols) ==
  RDiv(Num(PageWidthMM - (2 * pageMarginXMM)), Num(nCols))
cellHeightOf(nRows) ==
  RDiv(Num(PageHeightMM - (2 * pageMarginYMM)), Num(nRows))

\* x and y of the cell at (r, c): lines 261-262.
CellX(c, nCols) == RAdd(Num(pageMarginXMM), RMul(Num(c), cellWidthOf(nCols)))
CellY(r, nRows) == RAdd(Num(pageMarginYMM), RMul(Num(r), cellHeightOf(nRows)))

\* The border rectangle passed to pdf.Rect: line 268.
BorderRect(x, y, cw, ch) ==
  [x |-> RAdd(x, Num(cellBorderInsetMM)),
   y |-> RAdd(y, Num(cellBorderInsetMM)),
   w |-> RSub(cw, Num(2 * cellBorderInsetMM)),
   h |-> RSub(ch, Num(2 * cellBorderInsetMM))]

\* FitSize with a slip: the clamped width is displayH * aspect.
FitSizeMulAspect(iw, ih, cw, ch) ==
  LET aspect == Rat(ih, iw)
      displayW == RSub(cw, Num(contentPaddingMM))
      displayH == RMul(displayW, aspect)
      maxH == RSub(ch, Num(contentPaddingMM))
  IN  IF RLess(maxH, displayH)
      THEN [w |-> RMul(maxH, aspect), h |-> maxH]
      ELSE [w |-> displayW, h |-> displayH]

\* displayW and displayH of an iw x ih image (iw, ih > 0, as the registered
\* decoders report for the bodies of the model) in a cell of
\* cw x ch: lines 280-287.
FitSize(iw, ih, cw, ch) ==
  LET aspect == Rat(ih, iw)
      displayW == RSub(cw, Num(contentPaddingMM))
      displayH == RMul(displayW, aspect)
      maxH == RSub(ch, Num(contentPaddingMM))
  IN  IF RLess(maxH, displayH)
      THEN [w |-> RDiv(maxH, aspect), h |-> maxH]
      ELSE [w |-> displayW, h |-> displayH]

\* The rectangle passed to pdf.ImageOptions: lines 280-296.
FitRect(iw, ih, x, y, cw, ch) ==
  LET d == FitSize(iw, ih, cw, ch)
  IN  [x |-> RAdd(x, RDiv(RSub(cw, d.w), Num(2))),
       y |-> RAdd(y, RDiv(RSub(ch, d.h), Num(2))),
       w |-> d.w,
       h |-> d.h]

\* The text cell of drawAsciiText: SetXY(x, y+(h/2)-2), CellFormat(w, 5, ..).
LabelRect(x, y, cw, ch) ==
  [x |-> x,
   y |-> RSub(RAdd(y, RDiv(ch, Num(2))), Num(TextRaiseMM)),
   w |-> cw,
   h |-> Num(TextCellHeightMM)]

\* The text cell of the identifier line: lines 302-304.
IDRect(x, y, cw, ch) ==
  [x |-> x,
   y |-> RSub(RAdd(y, ch), Num(contentPaddingMM)),
   w |-> cw,
   h |-> Num(TextCellHeightMM)]

NoRect == [x |-> Num(0), y |-> Num(0), w |-> Num(0), h |-> Num(0)]

\* ------------------------------------------------------------------ network

Nil == "nil"
\* Response bodies: a 2x1 JPEG, a 1x2 PNG, and bytes no registered decoder
\* reads.
Bodies == {"jpeg2x1", "png1x2", "junk"}

\* image.DecodeConfig with the jpeg and png decoders registered.
DecodeConfig(data) ==
  CASE data = "jpeg2x1" ->
         [Width |-> 2, Height |-> 1, format |-> "jpeg", err |-> FALSE]
    [] data = "png1x2" ->
         [Width |-> 1, Height |-> 2, format |-> "png", err |-> FALSE]
    [] OTHER -> [Width |-> 0, Height |-> 0, format |-> "", err |-> TRUE]

detectFormat(data) ==
  LET c == DecodeConfig(data)
  IN  IF c.err THEN "JPG"
      ELSE IF c.format = "jpeg" THEN "JPG"
      ELSE IF c.format = "png" THEN "PNG"
      ELSE c.format

\* What the network answers to one GET: a transport error (connection
\* failure, timeout), or a status with a body whose read may fail.
Responses ==
  {[kind |-> "error", status |-> 0, body |-> "junk", readOK |-> FALSE],
   [kind |-> "http", status |-> 404, body |-> "junk", readOK |-> TRUE],
   [kind |-> "http", status |-> 206, body |-> "png1x2", readOK |-> TRUE],
   [kind |-> "http", status |-> 200, body |-> "jpeg2x1", readOK |-> TRUE],
   [kind |-> "http", status |-> 200, body |-> "png1x2", readOK |-> TRUE],
   [kind |-> "http", status |-> 200, body |-> "junk", readOK |-> TRUE],
   [kind |-> "http", status |-> 200, body |-> "jpeg2x1", readOK |-> FALSE]}

\* download with a slip: every 2xx status is accepted.
downloadAny2xx(resp) ==
  IF resp.kind = "error" THEN [data |-> Nil, err |-> TRUE]
  ELSE IF resp.status < 200 \/ resp.status > 299
  THEN [data |-> Nil, err |-> TRUE]
  ELSE IF ~resp.readOK THEN [data |-> resp.body, err |-> TRUE]
  ELSE [data |-> resp.body, err |-> FALSE]

\* download: the bytes and the error it returns for a response.
download(resp) ==
  IF resp.kind = "error" THEN [data |-> Nil, err |-> TRUE]
  ELSE IF resp.status # StatusOK THEN [data |-> Nil, err |-> TRUE]
  ELSE IF ~resp.readOK THEN [data |-> resp.body, err |-> TRUE]
  ELSE [data |-> resp.body, err |-> FALSE]

PrimaryURL(id) == <<"originals/", id, "-1.jpg">>
BackupURL(id) == <<"originals/", id, ".jpg">>

\* ------------------------------------------------------------------ state

VARIABLES
  pc,            \* where main is: start, open, scan, loop, primary, backup,
                 \* draw, save, done; fit and fitted for the fit computation
  outcome,       \* how main ended: "" while running
  sizeFlag,      \* the value of -size
  input,         \* the lines of the input stream not yet read
  opened,        \* the input source has been opened
  rows, cols,    \* the grid parseGridSize returned
  cellsPerPage,
  ids,           \* the return value of scanIDs
  i,             \* the loop index
  row, col,      \* the cell of item i
  pages,         \* pages of the document
  attempts,      \* the GETs of the current fetchDRImage call, with answers
  fetched,       \* what fetchDRImage returned for item i
  events,        \* the draw calls and GETs made so far, in program order
  results,       \* what fetchDRImage returned, item by item
  saves,         \* calls of OutputFileAndClose
  fitIn, fitOut  \* arguments and result of the fit computation

vars ==
  <<pc, outcome, sizeFlag, input, opened, rows, cols, cellsPerPage,
    ids, i, row, col, pages, attempts, fetched, events, results, saves, fitIn,
    fitOut>>

NotFoundLabel == <<"N", "O", "T", " ", "F", "O", "U", "N", "D">>
InvalidLabel ==
  <<"I", "N", "V", "A", "L", "I", "D", " ", "F", "O", "R", "M", "A", "T">>

\* One call on the drawing surface or one GET, made while item `item` was
\* the current one (-1 before the loop).
Ev(op, item, rect, arg) == [op |-> op, item |-> item, rect |-> rect, arg |-> arg]

NoFetch == [data |-> Nil, format |-> "", err |-> FALSE]
NoFit == [w |-> Num(0), h |-> Num(0)]
NoFitIn == [iw |-> 1, ih |-> 1, cw |-> 1, ch |-> 1]

\* ------------------------------------------------------------------ inputs

\* The decimal numeral of n >= 0.
RECURSIVE Dec(_)
Dec(n) ==
  IF n < 10 THEN <<DigitRunes[n + 1]>>
  ELSE Dec(n \div 10) \o <<DigitRunes[(n % 10) + 1]>>

\* -size values: the default, small grids, upper case and padding, a grid
\* whose product does not fit an int, and malformed ones.
SampleSizes ==
  {<<"3", "x", "6">>, <<"2", "X", "1">>,
   <<" ", "1", "x", "1", " ">>, <<"8", "x", "8">>,
   <<"0", "x", "2">>, <<"2", "x", "0">>, <<"-", "1", "x", "2">>,
   <<"2">>, <<"1", "x", "2", "x", "3">>, <<"a", "x", "1">>, <<>>,
   <<"1", " ", "x", "2">>, <<"9", "9", "x", "1">>}

\* Every numeral pair r x c with r, c from 0 to one past the largest int.
WideSizes ==
  {Dec(r) \o <<"x">> \o Dec(c) : r \in 0..(MaxInt + 1), c \in 0..(MaxInt + 1)}

\* Input lines of the pipeline: a comment, a link, and a code in digits
\* outside ASCII.
CoreLines == {<<"#", "7">>, Marker \o <<"9", "a">>, <<"U+0663">>}

RECURSIVE SeqsUpTo(_, _)
SeqsUpTo(S, n) ==
  IF n = 0 THEN {<<>>}
  ELSE LET shorter == SeqsUpTo(S, n - 1)
       IN  shorter \cup {Append(q, e) : q \in shorter, e \in S}

InitCommon ==
  /\ outcome = ""
  /\ opened = FALSE
  /\ rows = 0
  /\ cols = 0
  /\ cellsPerPage = 0
  /\ ids = <<>>
  /\ i = 0
  /\ row = 0
  /\ col = 0
  /\ pages = 0
  /\ attempts = <<>>
  /\ fetched = NoFetch
  /\ events = <<>>
  /\ results = <<>>
  /\ saves = 0
  /\ fitIn = NoFitIn
  /\ fitOut = NoFit

Init ==
  /\ pc = "start"
  /\ sizeFlag \in SampleSizes
  /\ input \in SeqsUpTo(CoreLines, MaxLines)
  /\ InitCommon

\* ------------------------------------------------------------------ main

\* Lines 191-198: parse -size; exit on an invalid value.
ParseGrid ==
  /\ pc = "start"
  /\ LET g == parseGridSize(sizeFlag)
     IN  IF g.err
         THEN /\ pc' = "done"
              /\ outcome' = "InvalidGrid"
              /\ UNCHANGED <<rows, cols>>
         ELSE /\ pc' = "open"
              /\ rows' = g.rows
              /\ cols' = g.cols
              /\ UNCHANGED outcome
  /\ UNCHANGED <<sizeFlag, input, opened, cellsPerPage, ids, i, row,
                 col, pages, attempts, fetched, events, saves, results, fitIn, fitOut>>

\* Lines 204-225: open the named file, or take stdin; exit when the file
\* cannot be opened.
OpenInput ==
  /\ pc = "open"
  /\ \E source \in {"stdin", "file", "missing"} :
       IF source = "missing"
       THEN /\ pc' = "done"
            /\ outcome' = "OpenFailed"
            /\ UNCHANGED opened
       ELSE /\ pc' = "scan"
            /\ opened' = TRUE
            /\ UNCHANGED outcome
  /\ UNCHANGED <<sizeFlag, input, rows, cols, cellsPerPage, ids, i,
                 row, col, pages, attempts, fetched, events, saves, results, fitIn,
                 fitOut>>

\* Lines 227-250: scanIDs over the lines the reader delivers (all of them,
\* or those before a read error), the two early returns, and the set-up of
\* the document: one page, cellsPerPage in int arithmetic.
ScanInput ==
  /\ pc = "scan"
  /\ \E cut \in 0..Len(input), readErr \in BOOLEAN :
       /\ readErr \/ cut = Len(input)
       /\ input' = SubSeq(input, cut + 1, Len(input))
       /\ ids' = scanIDs(SubSeq(input, 1, cut))
       /\ IF readErr
          THEN /\ pc' = "done"
               /\ outcome' = "ReadError"
               /\ UNCHANGED <<cellsPerPage, pages, events>>
          ELSE IF Len(ids') = 0
          THEN /\ pc' = "done"
               /\ outcome' = "NoIDs"
               /\ UNCHANGED <<cellsPerPage, pages, events>>
          ELSE /\ pc' = "loop"
               /\ cellsPerPage' = Wrap(rows * cols)
               /\ pages' = 1
               /\ events' = Append(events, Ev("AddPage", 0 - 1, NoRect, <<>>))
               /\ UNCHANGED outcome
  /\ UNCHANGED <<sizeFlag, opened, rows, cols, i, row, col, attempts, fetched,
                 saves, results, fitIn, fitOut>>

\* Lines 252-269: the head of one iteration: the page break, the cell of
\* item i, and its border.  i % cellsPerPage panics when cellsPerPage is 0.
BeginItem ==
  /\ pc = "loop"
  /\ i < Len(ids)
  /\ IF cellsPerPage = 0
     THEN /\ pc' = "done"
          /\ outcome' = "Panic"
          /\ UNCHANGED <<row, col, pages, events>>
     ELSE LET newPage == i > 0 /\ GoMod(i, cellsPerPage) = 0
              pageIndex == GoMod(i, cellsPerPage)
              r == GoDiv(pageIndex, cols)
              c == GoMod(pageIndex, cols)
              cw == cellWidthOf(cols)
              ch == cellHeightOf(rows)
              border == Ev("Rect", i,
                           BorderRect(CellX(c, cols), CellY(r, rows), cw, ch),
                           <<>>)
          IN  /\ pc' = "primary"
              /\ row' = r
              /\ col' = c
              /\ pages' = IF newPage THEN pages + 1 ELSE pages
              /\ events' =
                   IF newPage
                   THEN events \o <<Ev("AddPage", i, NoRect, <<>>), border>>
                   ELSE Append(events, border)
              /\ UNCHANGED outcome
  /\ UNCHANGED <<sizeFlag, input, opened, rows, cols, cellsPerPage,
                 ids, i, attempts, fetched, saves, results, fitIn, fitOut>>

\* Lines 130-134: the GET of the primary URL.  http.NewRequest does not fail
\* on a URL made of the template and digits, so every call of download is
\* one request.
FetchPrimary ==
  /\ pc = "primary"
  /\ \E resp \in Responses :
       LET url == PrimaryURL(ids[i + 1])
           d == download(resp)
       IN  /\ attempts' = <<[url |-> url, resp |-> resp]>>
           /\ events' = Append(events, Ev("Get", i, NoRect, url))
           /\ IF ~d.err
              THEN /\ fetched' = [data |-> d.data,
                                  format |-> detectFormat(d.data),
                                  err |-> FALSE]
                   /\ pc' = "draw"
              ELSE /\ pc' = "backup"
                   /\ UNCHANGED fetched
  /\ UNCHANGED <<outcome, sizeFlag, input, opened, rows, cols,
                 cellsPerPage, ids, i, row, col, pages, saves, results, fitIn, fitOut>>

\* FetchBackup with a slip: a failed backup request is made again.
FetchBackupRetry ==
  /\ pc = "backup"
  /\ \E resp \in Responses :
       LET url == BackupURL(ids[i + 1])
           d == download(resp)
       IN  /\ attempts' = Append(attempts, [url |-> url, resp |-> resp])
           /\ events' = Append(events, Ev("Get", i, NoRect, url))
           /\ IF ~d.err
              THEN /\ fetched' = [data |-> d.data,
                                  format |-> detectFormat(d.data),
                                  err |-> FALSE]
                   /\ pc' = "draw"
              ELSE /\ pc' = "backup"
                   /\ UNCHANGED fetched
  /\ UNCHANGED <<outcome, sizeFlag, input, opened, rows, cols,
                 cellsPerPage, ids, i, row, col, pages, saves, results, fitIn,
                 fitOut>>

\* Lines 136-142: the GET of the backup URL, and "image not found".
FetchBackup ==
  /\ pc = "backup"
  /\ \E resp \in Responses :
       LET url == BackupURL(ids[i + 1])
           d == download(resp)
       IN  /\ attempts' = Append(attempts, [url |-> url, resp |-> resp])
           /\ events' = Append(events, Ev("Get", i, NoRect, url))
           /\ fetched' =
                IF ~d.err
                THEN [data |-> d.data, format |-> detectFormat(d.data),
                      err |-> FALSE]
                ELSE [data |-> Nil, format |-> "", err |-> TRUE]
           /\ pc' = "draw"
  /\ UNCHANGED <<outcome, sizeFlag, input, opened, rows, cols,
                 cellsPerPage, ids, i, row, col, pages, saves, results, fitIn, fitOut>>

\* Lines 273-305: the draw calls for what fetchDRImage returned: the
\* image, or one of the two placeholders.
DrawCalls ==
  LET cw == cellWidthOf(cols)
      ch == cellHeightOf(rows)
      x == CellX(col, cols)
      y == CellY(row, rows)
      cfg == DecodeConfig(fetched.data)
  IN  IF ~fetched.err /\ fetched.data # Nil
      THEN IF cfg.err
           THEN <<Ev("Text", i, LabelRect(x, y, cw, ch),
                     toASCII(InvalidLabel))>>
           ELSE <<Ev("Image", i,
                     FitRect(cfg.Width, cfg.Height, x, y, cw, ch),
                     <<fetched.format, fetched.data>>)>>
      ELSE <<Ev("Text", i, LabelRect(x, y, cw, ch), toASCII(NotFoundLabel)),
             Ev("Text", i, IDRect(x, y, cw, ch), toASCII(ids[i + 1]))>>

\* DrawItem with a slip: an item that was not found ends the loop.
DrawItemAbort ==
  /\ pc = "draw"
  /\ events' = events \o DrawCalls
  /\ results' = Append(results, fetched)
  /\ i' = i + 1
  /\ attempts' = <<>>
  /\ fetched' = NoFetch
  /\ pc' = IF fetched.err THEN "save" ELSE "loop"
  /\ UNCHANGED <<outcome, sizeFlag, input, opened, rows, cols, cellsPerPage,
                 ids, row, col, pages, saves, fitIn, fitOut>>

\* Lines 271-306: the rest of one iteration, after the fetch.
DrawItem ==
  /\ pc = "draw"
  /\ events' = events \o DrawCalls
  /\ results' = Append(results, fetched)
  /\ i' = i + 1
  /\ attempts' = <<>>
  /\ fetched' = NoFetch
  /\ pc' = "loop"
  /\ UNCHANGED <<outcome, sizeFlag, input, opened, rows, cols, cellsPerPage,
                 ids, row, col, pages, saves, fitIn, fitOut>>

\* Line 252: the range is exhausted.
EndLoop ==
  /\ pc = "loop"
  /\ i = Len(ids)
  /\ pc' = "save"
  /\ UNCHANGED <<outcome, sizeFlag, input, opened, rows, cols,
                 cellsPerPage, ids, i, row, col, pages, attempts, fetched,
                 events, saves, results, fitIn, fitOut>>

\* Lines 308-312: write the document; the write may fail.
Save ==
  /\ pc = "save"
  /\ \E ok \in BOOLEAN :
       outcome' = IF ok THEN "Saved" ELSE "SaveFailed"
  /\ saves' = saves + 1
  /\ events' = Append(events, Ev("Save", i, NoRect, <<>>))
  /\ pc' = "done"
  /\ UNCHANGED <<sizeFlag, input, opened, rows, cols, cellsPerPage,
                 ids, i, row, col, pages, attempts, fetched, results, fitIn, fitOut>>

Next ==
  \/ ParseGrid
  \/ OpenInput
  \/ ScanInput
  \/ BeginItem
  \/ FetchPrimary
  \/ FetchBackup
  \/ DrawItem
  \/ EndLoop
  \/ Save

Spec == Init /\ [][Next]_vars

\* ------------------------------------------------------------------ scanIDs alone

\* Runes of the lines scanIDs is tried on: two digits (one outside ASCII),
\* a letter, the comment marker and a blank.
LineRunes == {"7", "U+0663", "a", "#", " "}
ShortFrags == {<<>>} \cup {<<r>> : r \in LineRunes}
Frags == ShortFrags \cup {<<r, q>> : r \in LineRunes, q \in LineRunes}

\* Every line made of at most one rune, then "urunno=" or nothing, then at
\* most two runes.
RichLines ==
  {p \o m \o q : p \in ShortFrags, m \in {<<>>, Marker}, q \in Frags}

\* main after the default -size 3x6 was parsed and the input opened.
InitScan ==
  /\ pc = "scan"
  /\ sizeFlag = <<"3", "x", "6">>
  /\ input \in {<<l>> : l \in RichLines} \cup SeqsUpTo(CoreLines, MaxLines)
  /\ outcome = ""
  /\ opened = TRUE
  /\ rows = 3
  /\ cols = 6
  /\ cellsPerPage = 0
  /\ ids = <<>>
  /\ i = 0
  /\ row = 0
  /\ col = 0
  /\ pages = 0
  /\ attempts = <<>>
  /\ fetched = NoFetch
  /\ events = <<>>
  /\ results = <<>>
  /\ saves = 0
  /\ fitIn = NoFitIn
  /\ fitOut = NoFit

NextScan == ScanInput

SpecScan == InitScan /\ [][NextScan]_vars

\* ------------------------------------------------------------------ the fit alone

InitFit ==
  /\ pc = "fit"
  /\ sizeFlag = <<"3", "x", "6">>
  /\ input = <<>>
  /\ fitIn \in [iw : 1..MaxPixels, ih : 1..MaxPixels,
                cw : 1..MaxCellMM, ch : 1..MaxCellMM]
  /\ outcome = ""
  /\ opened = FALSE
  /\ rows = 0
  /\ cols = 0
  /\ cellsPerPage = 0
  /\ ids = <<>>
  /\ i = 0
  /\ row = 0
  /\ col = 0
  /\ pages = 0
  /\ attempts = <<>>
  /\ fetched = NoFetch
  /\ events = <<>>
  /\ results = <<>>
  /\ saves = 0
  /\ fitOut = NoFit

\* Lines 280-287 on the arguments fitIn.
ComputeFit ==
  /\ pc = "fit"
  /\ fitOut' = FitSize(fitIn.iw, fitIn.ih, Num(fitIn.cw), Num(fitIn.ch))
  /\ pc' = "fitted"
  /\ UNCHANGED <<outcome, sizeFlag, input, opened, rows, cols,
                 cellsPerPage, ids, i, row, col, pages, attempts, fetched,
                 events, results, saves, fitIn>>

NextFit == ComputeFit

SpecFit == InitFit /\ [][NextFit]_vars

\* ------------------------------------------------------------------ every grid

\* The pipeline on every numeral pair as -size and 1..MaxItems codes.
InitGrid ==
  /\ pc = "start"
  /\ sizeFlag \in WideSizes
  /\ input \in {[k \in 1..n |-> <<"7">>] : n \in 1..MaxItems}
  /\ InitCommon

SpecGrid == InitGrid /\ [][Next]_vars

\* ------------------------------------------------------------------ properties

CeilDiv(a, b) == (a + b - 1) \div b

Succeeded(resp) == ~download(resp).err

\* The events of item k, in order.
ItemEvents(k) ==
  LET OfItem(e) == e.item = k /\ e.op \in {"Rect", "Get", "Text", "Image"}
  IN  SelectSeq(events, OfItem)

\* The number of AddPage calls among the first n events.
RECURSIVE PagesBefore(_)
PagesBefore(n) ==
  IF n = 0 THEN 0
  ELSE PagesBefore(n - 1) + (IF events[n].op = "AddPage" THEN 1 ELSE 0)

Ops(es) == [n \in 1..Len(es) |-> es[n].op]

\* C1: for every accepted grid R x C and N items the loop makes
\* ceil(N / (R*C)) pages, starting a page exactly at the indices i > 0 with
\* i mod (R*C) = 0, and item i gets the cell (page, row, col) with
\* page = i div (R*C), row = (i mod (R*C)) div C, col = (i mod (R*C)) mod C,
\* so that distinct items get distinct cells.
C1_PagesAndCells ==
  /\ pc = "save" => pages = CeilDiv(Len(ids), rows * cols)
  /\ \A n \in 1..Len(events) :
       /\ events[n].op = "AddPage" /\ events[n].item >= 0 =>
            events[n].item % (rows * cols) = 0
       /\ events[n].op = "Rect" =>
            LET k == events[n].item
                li == k % (rows * cols)
            IN  /\ PagesBefore(n) = (k \div (rows * cols)) + 1
                /\ events[n].rect =
                     BorderRect(CellX(li % cols, cols),
                                CellY(li \div cols, rows),
                                cellWidthOf(cols), cellHeightOf(rows))

\* C2: fetchDRImage asks the primary URL, then the backup URL, each at most
\* once: a primary success returns the primary's bytes without a backup
\* request, a backup success after a primary failure returns the backup's
\* bytes, and two failures return "not found" with nil bytes after exactly
\* two requests.
C2_FetchOrder ==
  /\ pc = "primary" => attempts = <<>>
  /\ pc = "backup" =>
       /\ Len(attempts) = 1
       /\ attempts[1].url = PrimaryURL(ids[i + 1])
       /\ ~Succeeded(attempts[1].resp)
  /\ pc = "draw" =>
       /\ Len(attempts) \in {1, 2}
       /\ attempts[1].url = PrimaryURL(ids[i + 1])
       /\ attempts[1].url # BackupURL(ids[i + 1])
       /\ Len(attempts) = 1 =>
            /\ Succeeded(attempts[1].resp)
            /\ ~fetched.err
            /\ fetched.data = attempts[1].resp.body
       /\ Len(attempts) = 2 =>
            /\ ~Succeeded(attempts[1].resp)
            /\ attempts[2].url = BackupURL(ids[i + 1])
            /\ IF Succeeded(attempts[2].resp)
               THEN ~fetched.err /\ fetched.data = attempts[2].resp.body
               ELSE fetched.err /\ fetched.data = Nil
  /\ \A k \in 0..(Len(ids) - 1) :
       LET gets == SelectSeq(ItemEvents(k), LAMBDA e : e.op = "Get")
       IN  /\ Len(gets) <= 2
           /\ Len(gets) >= 1 => gets[1].arg = PrimaryURL(ids[k + 1])
           /\ Len(gets) = 2 => gets[2].arg = BackupURL(ids[k + 1])

\* C2's case: the primary failed and the backup delivered the bytes.
C2_Witness ==
  /\ pc = "draw"
  /\ Len(attempts) = 2
  /\ ~fetched.err
  /\ fetched.data = "jpeg2x1"

Is2xx(resp) == resp.kind = "http" /\ resp.status >= 200 /\ resp.status <= 299

\* C3 as claimed: whenever the primary answers with any 2xx status and its
\* body is read, fetchDRImage returns that body and asks no backup.
C3_Any2xxSucceeds ==
  (pc \in {"backup", "draw"} /\ Is2xx(attempts[1].resp)
     /\ attempts[1].resp.readOK) =>
    /\ pc = "draw"
    /\ Len(attempts) = 1
    /\ ~fetched.err
    /\ fetched.data = attempts[1].resp.body

\* C3, amended: the primary attempt succeeds exactly when the status is 200
\* and the body is read: then fetchDRImage returns that body and asks no
\* backup; on every other answer (another 2xx status included) the backup
\* is asked.
C3_Only200Succeeds ==
  pc \in {"backup", "draw"} =>
    LET r == attempts[1].resp
    IN  IF r.kind = "http" /\ r.status = 200 /\ r.readOK
        THEN /\ pc = "draw"
             /\ Len(attempts) = 1
             /\ ~fetched.err
             /\ fetched.data = r.body
        ELSE pc = "backup" \/ Len(attempts) = 2

\* C3's case: a 200 answer returned at once, no backup request made.
C3_Witness ==
  /\ pc = "draw"
  /\ Len(attempts) = 1
  /\ attempts[1].resp.status = 200
  /\ fetched.data = attempts[1].resp.body

\* What the loop must have done for item k whose fetch returned r.
ExpectedOps(r) ==
  (IF r.err THEN <<"Rect", "Get", "Get">> ELSE <<"Rect", "Get">>) \o
  (IF ~r.err /\ r.data \in Bodies
   THEN IF DecodeConfig(r.data).err THEN <<"Text">> ELSE <<"Image">>
   ELSE <<"Text", "Text">>)

DropGets(es) == SelectSeq(es, LAMBDA e : e.op # "Get")
DropSecondGet(ops) ==
  IF Len(ops) >= 3 /\ ops[3] = "Get"
  THEN <<ops[1], ops[2]>> \o SubSeq(ops, 4, Len(ops))
  ELSE ops

\* The cell of item k, from k alone.
CellOf(k) ==
  LET li == k % (rows * cols)
  IN  [x |-> CellX(li % cols, cols), y |-> CellY(li \div cols, rows)]

\* C5: the items are handled one at a time in input order; each gets its
\* border, then its fetch, then exactly one of: the image (bytes whose
\* header decodes), "INVALID FORMAT" (bytes whose header does not decode),
\* "NOT FOUND" and the identifier (no bytes); what is drawn and where depends
\* on the item's own index and fetch result only; and the document is saved
\* only after all N items are drawn.
C5_SequentialIsolated ==
  /\ \A n \in 1..(Len(events) - 1) : events[n].item <= events[n + 1].item
  /\ Len(results) = i
  /\ i <= Len(ids)
  /\ (pc = "save" \/ saves > 0) => i = Len(ids)
  /\ \A k \in 0..(i - 1) :
       LET es == ItemEvents(k)
           r == results[k + 1]
           cw == cellWidthOf(cols)
           ch == cellHeightOf(rows)
           c == CellOf(k)
           draws == SubSeq(DropGets(es), 2, Len(DropGets(es)))
       IN  /\ DropSecondGet(Ops(es)) = DropSecondGet(ExpectedOps(r))
           /\ r.err => Ops(es) = ExpectedOps(r)
           /\ es[1].rect = BorderRect(c.x, c.y, cw, ch)
           /\ es[2].arg = PrimaryURL(ids[k + 1])
           /\ IF r.err
              THEN /\ draws[1].arg = NotFoundLabel
                   /\ draws[1].rect = LabelRect(c.x, c.y, cw, ch)
                   /\ draws[2].arg = toASCII(ids[k + 1])
                   /\ draws[2].rect = IDRect(c.x, c.y, cw, ch)
              ELSE IF DecodeConfig(r.data).err
              THEN /\ draws[1].arg = InvalidLabel
                   /\ draws[1].rect = LabelRect(c.x, c.y, cw, ch)
              ELSE /\ draws[1].arg = <<detectFormat(r.data), r.data>>
                   /\ draws[1].rect =
                        FitRect(DecodeConfig(r.data).Width,
                                DecodeConfig(r.data).Height,
                                c.x, c.y, cw, ch)

\* C5's case: two items, the first not found and the second drawn as an
\* image, and the loop at its end.
C5_Witness ==
  /\ pc = "save"
  /\ Len(ids) = 2
  /\ results[1].err
  /\ ~results[2].err
  /\ ~DecodeConfig(results[2].data).err

\* C7: every text drawn in a placeholder cell consists of ASCII runes.
C7_PlaceholderTextASCII ==
  \A n \in 1..Len(events) :
    events[n].op = "Text" =>
      \A j \in 1..Len(events[n].arg) : IsASCII(events[n].arg[j])

PreflightFatal == {"InvalidGrid", "OpenFailed", "ReadError", "NoIDs"}
GetCount == Len(SelectSeq(events, LAMBDA e : e.op = "Get"))

\* C8: a run that ends in a pre-flight fatal condition makes no request and
\* no save; an invalid grid is detected before the input is opened or read;
\* every other run saves exactly once, after the last item was fetched and
\* drawn.
C8_PreflightAndSave ==
  /\ outcome \in PreflightFatal => GetCount = 0 /\ saves = 0
  /\ outcome = "InvalidGrid" => ~opened
  /\ saves <= 1
  /\ saves = 1 => i = Len(ids) /\ Len(results) = Len(ids)
  /\ (pc = "done" /\ outcome \notin PreflightFatal) => saves = 1

SetMin(S) == CHOOSE m \in S : \A e \in S : m <= e
SetMax(S) == CHOOSE m \in S : \A e \in S : m >= e

\* A line without the white space around it.
Trimmed(line) ==
  LET solid == {k \in 1..Len(line) : ~IsSpace(line[k])}
  IN  IF solid = {} THEN <<>>
      ELSE SubSeq(line, SetMin(solid), SetMax(solid))

\* The identifiers one line yields, by the per-line rule: none or one.
LineYield(line) ==
  LET t == Trimmed(line)
      at == {q \in 0..(Len(t) - Len(Marker)) :
               SubSeq(t, q + 1, q + Len(Marker)) = Marker}
      first == SetMin(at) + Len(Marker) + 1
      runs == {n \in 0..(Len(t) - first + 1) :
                 \A j \in first..(first + n - 1) : IsDigit(t[j])}
      run == SubSeq(t, first, first + SetMax(runs) - 1)
  IN  IF t = <<>> \/ t[1] = "#" THEN <<>>
      ELSE IF \A k \in 1..Len(t) : IsDigit(t[k]) THEN <<t>>
      ELSE IF at = {} THEN <<>>
      ELSE IF run = <<>> THEN <<>>
      ELSE <<run>>

RECURSIVE YieldAll(_)
YieldAll(lines) ==
  IF lines = <<>> THEN <<>>
  ELSE LineYield(Head(lines)) \o YieldAll(Tail(lines))

\* C4: scanIDs returns the per-line results in input order, nothing dropped
\* or merged: a trimmed line yields nothing when empty or a comment, itself
\* when all digits, else the digits that follow "urunno=" when there are
\* any, else nothing; so every identifier is a non-empty string of digits.
C4_ScanIDs ==
  [][pc = "scan" =>
       /\ \E cut \in 0..Len(input) :
            /\ input' = SubSeq(input, cut + 1, Len(input))
            /\ ids' = YieldAll(SubSeq(input, 1, cut))
       /\ \A k \in 1..Len(ids') :
            /\ ids'[k] # <<>>
            /\ \A j \in 1..Len(ids'[k]) : IsDigit(ids'[k][j])]_vars

\* C4's case: two link lines with the same code were read, and both codes
\* are kept, in order.
C4_Witness ==
  /\ pc = "loop"
  /\ input = <<>>
  /\ ids = <<<<"9">>, <<"9">>>>

\* C6: the fit keeps the aspect ratio of the image (displayW * ih =
\* displayH * iw) and stays within the cell less its padding, in both
\* directions.
C6_FitAspectAndBounds ==
  pc = "fitted" =>
    /\ RMul(fitOut.w, Num(fitIn.ih)) = RMul(fitOut.h, Num(fitIn.iw))
    /\ RLeq(fitOut.w, Num(fitIn.cw - contentPaddingMM))
    /\ RLeq(fitOut.h, Num(fitIn.ch - contentPaddingMM))

\* C6's case: a tall image in a wide cell: the height is clamped and the
\* width shrinks below the padded width of the cell.
C6_Witness ==
  /\ pc = "fitted"
  /\ fitIn.ih > fitIn.iw
  /\ fitOut.h = Num(fitIn.ch - contentPaddingMM)
  /\ RLess(Num(0), fitOut.w)
  /\ RLess(fitOut.w, Num(fitIn.cw - contentPaddingMM))

\* C9: for every accepted grid cellsPerPage is positive, so the loop's
\* divisions are defined and every item's cell has 0 <= row < rows and
\* 0 <= col < cols.
C9_CellsPerPagePositive ==
  /\ outcome # "Panic"
  /\ pc \in {"loop", "primary", "backup", "draw", "save"} => cellsPerPage > 0
  /\ pc \in {"primary", "backup", "draw"} =>
       /\ 0 <= row /\ row < rows
       /\ 0 <= col /\ col < cols

Inside(inner, outer) ==
  /\ RLeq(outer.x, inner.x)
  /\ RLeq(outer.y, inner.y)
  /\ RLeq(RAdd(inner.x, inner.w), RAdd(outer.x, outer.w))
  /\ RLeq(RAdd(inner.y, inner.h), RAdd(outer.y, outer.h))

ContentArea ==
  [x |-> Num(pageMarginXMM), y |-> Num(pageMarginYMM),
   w |-> Num(PageWidthMM - (2 * pageMarginXMM)),
   h |-> Num(PageHeightMM - (2 * pageMarginYMM))]

\* The cell the loop gave item k.
LoopCell(k) ==
  LET li == GoMod(k, cellsPerPage)
  IN  [x |-> CellX(GoMod(li, cols), cols), y |-> CellY(GoDiv(li, cols), rows),
       w |-> cellWidthOf(cols), h |-> cellHeightOf(rows)]

\* C10: for every accepted grid the border rectangle and the image
\* rectangle of each item have positive width and height and lie inside the
\* item's cell, which lies inside the content area of the page.
C10_RectanglesInsideCell ==
  \A n \in 1..Len(events) :
    events[n].op \in {"Rect", "Image"} =>
      /\ RLess(Num(0), events[n].rect.w)
      /\ RLess(Num(0), events[n].rect.h)
      /\ Inside(events[n].rect, LoopCell(events[n].item))
      /\ Inside(LoopCell(events[n].item), ContentArea)

====
